---- MODULE Spec2Model ----
(***************************************************************************)
(* A model of mlhub's command implementations (mlhub/commands.py):         *)
(* install_model, dispatch and remove_model acting on the local package    *)
(* root MLINIT.  The file system below MLINIT, the archives an invocation  *)
(* may be given, and the position of each tool process are the state.      *)
(***************************************************************************)
EXTENDS Integers, Sequences, FiniteSets, TLC

\* ------------------------------------------------------------------------
\* Text.  A string the code inspects character by character is a sequence
\* of one-character strings; a file name is a sequence of tokens.
\* ------------------------------------------------------------------------

PYTHON == <<"p", "y", "t", "h", "o", "n">>
RLANG == <<"R">>
PFRAG == <<"p">>
JULIA == <<"j", "u", "l", "i", "a">>
PY == <<"p", "y">>

\* Python's `a in b` on two strings: a is a contiguous part of b.
StrIn(a, b) ==
    \E i \in 0..(Len(b) - Len(a)) :
        \A j \in 1..Len(a) : b[i + j] = a[j]

DESC_YAML == <<"DESCRIPTION", ".", "y", "a", "m", "l">>
DESC_YML == <<"DESCRIPTION", ".", "y", "m", "l">>
README == <<"README", ".", "t", "x", "t">>

\* cmd + "." + lang (commands.py line 546).
ScriptName(cmd, lang) == <<cmd>> \o <<".">> \o lang

\* ------------------------------------------------------------------------
\* Versions.  A version string is the sequence of its dot-separated
\* components, each a sequence of decimal digits: "1.10.0" is
\* <<<<1>>, <<1, 0>>, <<0>>>>.  The empty string is << >>.
\* ------------------------------------------------------------------------

V_1_2_0 == << <<1>>, <<2>>, <<0>> >>
V_1_10_0 == << <<1>>, <<1, 0>>, <<0>> >>
V_2_0_0 == << <<2>>, <<0>>, <<0>> >>
V_3_0_0 == << <<3>>, <<0>>, <<0>> >>
V_1_2 == << <<1>>, <<2>> >>
V_1_0 == << <<1>>, <<0>> >>
V_EMPTY == << >>

RECURSIVE DigitsToNat(_)
DigitsToNat(ds) ==
    IF ds = << >> THEN 0
    ELSE DigitsToNat(SubSeq(ds, 1, Len(ds) - 1)) * 10 + ds[Len(ds)]

\* distutils.version.StrictVersion accepts two or three numeric components
\* (the patch defaults to 0) and raises ValueError on anything else.
StrictVersionValid(v) ==
    /\ Len(v) \in {2, 3}
    /\ \A i \in 1..Len(v) : Len(v[i]) > 0

StrictVersion(v) ==
    << DigitsToNat(v[1]), DigitsToNat(v[2]),
       IF Len(v) = 3 THEN DigitsToNat(v[3]) ELSE 0 >>

\* Python's tuple comparison of two parsed versions.
VersionGreater(x, y) ==
    \/ x[1] > y[1]
    \/ x[1] = y[1] /\ x[2] > y[2]
    \/ x[1] = y[1] /\ x[2] = y[2] /\ x[3] > y[3]

VersionEqual(x, y) == x[1] = y[1] /\ x[2] = y[2] /\ x[3] = y[3]

\* ------------------------------------------------------------------------
\* The archives an invocation can meet.  An archive is named
\* <name>_<ver>.mlm and holds a directory <name>/ with the listed files.
\* ------------------------------------------------------------------------

Models == {"rain", "iris"}
Commands == {"demo", "score", "print", "plot"}
Archives == {"A", "B", "C", "D", "E", "F", "G"}
NONE == "none"

ArchiveName(a) == IF a = "D" THEN "iris" ELSE "rain"

ArchiveVer(a) ==
    CASE a = "A" -> V_1_2_0
      [] a = "B" -> V_1_10_0
      [] a = "C" -> V_2_0_0
      [] a = "D" -> V_1_0
      [] a = "E" -> V_1_2
      [] a = "F" -> V_3_0_0
      [] OTHER -> V_EMPTY

\* F is not a readable zip file.
ArchiveReadable(a) == a # "F"

ArchiveFiles(a) ==
    CASE a = "A" -> {DESC_YAML, ScriptName("demo", PY), ScriptName("score", PY),
                     ScriptName("print", PY)}
      [] a = "B" -> {DESC_YML, ScriptName("demo", RLANG), README}
      [] a = "C" -> {DESC_YAML, ScriptName("demo", PY)}
      [] a = "D" -> {DESC_YAML, DESC_YML, ScriptName("demo", JULIA),
                     ScriptName("plot", JULIA)}
      [] a = "E" -> {DESC_YAML, ScriptName("score", PY)}
      [] a = "G" -> {DESC_YAML, ScriptName("demo", RLANG)}
      [] OTHER -> {}

\* The metadata written in descriptor file f of archive a.
ArchiveMeta(a, f) ==
    CASE a = "A" -> [version |-> V_1_2_0, languages |-> PYTHON,
                     display |-> {"demo"}, commands |-> {"demo", "score"}]
      [] a = "B" -> [version |-> V_1_10_0, languages |-> RLANG,
                     display |-> {}, commands |-> {"demo"}]
      [] a = "C" -> [version |-> V_1_2_0, languages |-> PFRAG,
                     display |-> {}, commands |-> {"demo"}]
      [] a = "D" -> [version |-> IF f = DESC_YAML THEN V_1_0 ELSE V_1_2,
                     languages |-> JULIA,
                     display |-> {"demo", "plot"}, commands |-> {"demo"}]
      [] a = "E" -> [version |-> V_1_2, languages |-> PYTHON,
                     display |-> {}, commands |-> {"score"}]
      [] OTHER -> [version |-> V_1_0, languages |-> RLANG,
                   display |-> {}, commands |-> {"demo"}]

\* A file on disk: its name, and the archive and archive member it came from.
File(n, a, f) == [name |-> n, a |-> a, f |-> f]

ArchiveTree(a) == {File(f, a, f) : f \in ArchiveFiles(a)}

\* The archives a URL serves, and the repository index (Packages.yaml).
UrlArchives == {"A", "B", "D", "F"}
RepoNames == {"rain", "iris"}
RepoUrl(name) == IF name = "rain" THEN "B" ELSE "D"

\* os.path.basename of an archive's path or URL, as tokens:
\* <name>_<ver>.mlm, or <name>.mlm when the name carries no version.
MlmFileName(a) ==
    IF ArchiveVer(a) = V_EMPTY THEN <<ArchiveName(a), ".mlm">>
    ELSE <<ArchiveName(a), "_", ArchiveVer(a), ".mlm">>

\* utils.interpret_mlm_name: (mlmfile, model, version) of a file name; a
\* name without a version suffix yields the empty version.
interpret_mlm_name(fn) ==
    [mlmfile |-> fn, model |-> fn[1],
     version |-> IF Len(fn) = 4 THEN fn[3] ELSE V_EMPTY]

\* ------------------------------------------------------------------------
\* State.
\*   fs    the file system: whether MLINIT exists, each model's
\*         installation directory, the archives downloaded into MLINIT and
\*         the bash completion word lists kept below it.
\*   proc  each tool process: the command it runs, its position in the
\*         code, its local variables, and (at pc "done") its exit status.
\*   touched  per process, whether another process has changed the
\*         directory it works on since its invocation began.
\* ------------------------------------------------------------------------

VARIABLES fs, proc, touched

vars == <<fs, proc, touched>>

Procs == {"p1", "p2"}

NoDir == [exists |-> FALSE, files |-> {}]

EmptyFs ==
    [root |-> FALSE,
     dirs |-> [m \in Models |-> NoDir],
     mlm |-> {},
     completion |-> [models |-> {}, commands |-> {}]]

\* The metadata of no descriptor at all.
NoDesc == [version |-> V_EMPTY, languages |-> << >>, display |-> {}, commands |-> {}]

Idle ==
    [op |-> NONE, pc |-> "idle",
     url |-> NONE, ext |-> NONE, present |-> TRUE,
     mlmfile |-> << >>, model |-> NONE, version |-> V_EMPTY,
     existed |-> "unknown", installed_version |-> V_EMPTY,
     prompt |-> NONE, answer |-> NONE, input |-> NONE,
     removed |-> FALSE, extract_tried |-> FALSE, extracted |-> NONE,
     result |-> NoDir,
     probes |-> 0, probe |-> NONE, transfers |-> 0, transfer |-> NONE,
     cmd |-> NONE, noDisplay |-> FALSE, desc |-> NoDesc, script |-> << >>,
     queue |-> << >>, asked |-> << >>,
     child |-> FALSE, returncode |-> 0,
     exit |-> 0, err |-> NONE, at |-> "idle",
     fs0 |-> EmptyFs]

Init ==
    /\ fs = EmptyFs
    /\ proc = [p \in Procs |-> Idle]
    /\ touched = [p \in Procs |-> FALSE]

\* A process is free to run the next command line.
Free(p) == proc[p].pc \in {"idle", "done"}

\* The record of a fresh invocation of command op on file system f.
Begin(op, f) == [Idle EXCEPT !.op = op, !.fs0 = f]

\* The invocation ends: sys.exit(status), an uncaught exception (status 1),
\* or a normal return (status 0).
\* `at` keeps the position the invocation ended at.
Finish(r, status, err) ==
    [r EXCEPT !.pc = "done", !.exit = status, !.err = err, !.at = r.pc]

\* ------------------------------------------------------------------------
\* Helpers of mlhub.utils and the standard library.
\* ------------------------------------------------------------------------

\* utils.create_init: ensure the local init dir exists.
create_init(f) == [f EXCEPT !.root = TRUE]

\* shutil.rmtree of one model's installation directory.
rmtree(f, model) == [f EXCEPT !.dirs[model] = NoDir]

\* shutil.rmtree(MLINIT): everything below the package root goes.
rmtree_all(f) == EmptyFs

\* utils.update_completion_list: add words to a completion word list.
update_completion_list(f, list, words) ==
    [f EXCEPT !.completion[list] = @ \cup words]

\* The canonical descriptor of an installed model, if there is one.
HasDescription(f, model) ==
    \E x \in f.dirs[model].files : x.name = DESC_YAML

\* utils.load_description: the metadata in <MLINIT>/<model>/DESCRIPTION.yaml.
load_description(f, model) ==
    LET x == CHOOSE x \in f.dirs[model].files : x.name = DESC_YAML
    IN  ArchiveMeta(x.a, x.f)

\* utils.yes_or_no: the user's answer to a question, as a boolean.
yes_or_no(answer) == answer = "yes"

\* ------------------------------------------------------------------------
\* install_model
\* ------------------------------------------------------------------------

\* The references an install can be given: a local .mlm path (the file may
\* be missing), a URL of an archive, or a bare model name.
InstallRefs ==
    [kind : {"local"}, x : Archives, present : {TRUE}]
        \cup [kind : {"local"}, x : {"A"}, present : {FALSE}]
        \cup [kind : {"url"}, x : UrlArchives, present : {TRUE}]
        \cup [kind : {"name"}, x : RepoNames \cup {"nosuch"}, present : {TRUE}]

\* A faulty variant: `>=` where line 220 has `>`.
DispositionPrompt_ge(installed_version, version) ==
    IF VersionGreater(StrictVersion(installed_version), StrictVersion(version))
       \/ VersionEqual(StrictVersion(installed_version), StrictVersion(version))
    THEN "Downgrade"
    ELSE "Upgrade"

\* Lines 220-228: which question is asked, from the installed and the
\* candidate version.
DispositionPrompt(installed_version, version) ==
    IF VersionGreater(StrictVersion(installed_version), StrictVersion(version))
    THEN "Downgrade"
    ELSE IF VersionEqual(StrictVersion(installed_version), StrictVersion(version))
    THEN "Replace"
    ELSE "Upgrade"

\* A faulty variant: the question is asked although nothing is installed.
FreshInstall_asks(r) ==
    [r EXCEPT !.existed = "no", !.pc = "prompt", !.prompt = "Replace"]

\* Lines 217 and 240: nothing is installed at `path`, so the block that
\* asks is skipped and the download (or, for a local file, the extraction)
\* comes next.
FreshInstall(r) ==
    [r EXCEPT !.existed = "no",
              !.pc = IF r.url # NONE THEN "probe" ELSE "extract"]

\* Lines 213-228: with the reference resolved (record r, file system f),
\* look for an existing installation and choose the question to ask.
CheckInstalled(r, f) ==
    IF ~f.dirs[r.model].exists
    THEN FreshInstall(r)
    ELSE IF ~HasDescription(f, r.model)
    THEN Finish([r EXCEPT !.existed = "yes"], 1, "DescriptionNotFound")
    ELSE LET installed_version == load_description(f, r.model).version
             r1 == [r EXCEPT !.existed = "yes",
                             !.installed_version = installed_version]
         IN  IF ~StrictVersionValid(installed_version)
                \/ ~StrictVersionValid(r.version)
             THEN Finish(r1, 1, "ValueError")
             ELSE [r1 EXCEPT !.pc = "prompt",
                             !.prompt = DispositionPrompt(installed_version,
                                                          r.version)]

\* Lines 176-228: set up, resolve the reference, and either ask the
\* disposition question or go on to fetch and extract.
install_model_begin(p, ref) ==
    /\ Free(p)
    /\ LET r0 == Begin("install", fs)
           f1 == create_init(fs)
       IN  CASE ref.kind = "local" ->
                  LET id == interpret_mlm_name(MlmFileName(ref.x))
                      r1 == [r0 EXCEPT !.ext = ref.x, !.present = ref.present,
                                       !.mlmfile = id.mlmfile,
                                       !.model = id.model,
                                       !.version = id.version]
                  IN  /\ fs' = f1
                      /\ proc' = [proc EXCEPT ![p] = CheckInstalled(r1, f1)]
             [] ref.kind = "url" ->
                  LET id == interpret_mlm_name(MlmFileName(ref.x))
                      r1 == [r0 EXCEPT !.url = ref.x,
                                       !.mlmfile = id.mlmfile,
                                       !.model = id.model,
                                       !.version = id.version]
                  IN  /\ fs' = f1
                      /\ proc' = [proc EXCEPT ![p] = CheckInstalled(r1, f1)]
             [] OTHER ->
                  IF ref.x \notin RepoNames
                  THEN /\ fs' = f1
                       /\ proc' = [proc EXCEPT
                              ![p] = Finish(r0, 1, "ModelNotFoundOnRepo")]
                  ELSE LET url == RepoUrl(ref.x)
                           f2 == update_completion_list(f1, "models", RepoNames)
                           id == interpret_mlm_name(MlmFileName(url))
                           r1 == [r0 EXCEPT !.url = url,
                                            !.mlmfile = id.mlmfile,
                                            !.model = id.model,
                                            !.version = id.version]
                       IN  /\ fs' = f2
                           /\ proc' = [proc EXCEPT ![p] = CheckInstalled(r1, f2)]

\* A faulty variant: the answer is never taken as a refusal.
Declined_never(answer) == FALSE

\* Line 230: `if not yes`.
Declined(answer) == ~yes_or_no(answer)

\* A faulty variant: the installed model is left in place.
RemoveInstalled_skipped(f, model) == f

\* Lines 235-236: the installed model is removed before anything is fetched.
RemoveInstalled(f, model) == rmtree(f, model)

\* Lines 230-236: the user's answer; a refusal exits with status 1, a
\* confirmation removes the installed model.
install_model_answer(p, answer) ==
    /\ proc[p].op = "install"
    /\ proc[p].pc = "prompt"
    /\ LET r == [proc[p] EXCEPT !.answer = answer]
       IN  IF Declined(answer)
           THEN /\ proc' = [proc EXCEPT ![p] = Finish(r, 1, "UserCancelled")]
                /\ fs' = fs
           ELSE IF ~fs.dirs[r.model].exists
           THEN /\ proc' = [proc EXCEPT ![p] = Finish(r, 1, "FileNotFoundError")]
                /\ fs' = fs
           ELSE /\ proc' = [proc EXCEPT
                       ![p] = [r EXCEPT !.removed = TRUE,
                                        !.pc = IF r.url # NONE THEN "probe"
                                               ELSE "extract"]]
                /\ fs' = RemoveInstalled(fs, r.model)

\* A faulty variant: the status of the probe is not looked at.
ProbeFailed_never(ok) == FALSE

\* Line 248: `if meta.status_code != requests.codes.ok`.
ProbeFailed(ok) == ~ok

\* Lines 240-252: the header probe of the URL.
install_model_probe(p, ok) ==
    /\ proc[p].op = "install"
    /\ proc[p].pc = "probe"
    /\ fs' = fs
    /\ LET r == [proc[p] EXCEPT !.probes = @ + 1,
                                !.probe = IF ok THEN "ok" ELSE "fail"]
       IN  proc' = [proc EXCEPT
               ![p] = IF ProbeFailed(ok)
                      THEN Finish(r, 1, "ModelURLAccessException")
                      ELSE [r EXCEPT !.pc = "download"]]

\* Lines 254-260: urlretrieve(url, local) writes <MLINIT>/<mlmfile>.
install_model_download(p, ok) ==
    /\ proc[p].op = "install"
    /\ proc[p].pc = "download"
    /\ LET r == [proc[p] EXCEPT !.transfers = @ + 1,
                                !.transfer = IF ok THEN "ok" ELSE "fail"]
       IN  IF ~ok
           THEN /\ proc' = [proc EXCEPT
                       ![p] = Finish(r, 1, "ModelDownloadHaltException")]
                /\ fs' = fs
           ELSE IF ~fs.root
           THEN /\ proc' = [proc EXCEPT ![p] = Finish(r, 1, "FileNotFoundError")]
                /\ fs' = fs
           ELSE /\ proc' = [proc EXCEPT ![p] = [r EXCEPT !.pc = "extract"]]
                /\ fs' = [fs EXCEPT
                       !.mlm = {m \in @ : m.file # r.mlmfile}
                                   \cup {[file |-> r.mlmfile, a |-> r.url]}]

\* zipfile's extractall(MLINIT) of archive a: its directory is created
\* below MLINIT if need be and its members overwrite files of the same name.
extractall(f, a) ==
    [f EXCEPT !.root = TRUE,
              !.dirs[ArchiveName(a)] =
                  [exists |-> TRUE,
                   files |-> {x \in @.files : x.name \notin ArchiveFiles(a)}
                                 \cup ArchiveTree(a)]]

\* A faulty variant: the .yml is moved whether or not a .yaml exists.
NormalizeDescription_always(f, model) ==
    LET files == f.dirs[model].files
    IN  IF \E x \in files : x.name = DESC_YML
        THEN [f EXCEPT !.dirs[model].files =
                  {IF x.name = DESC_YML THEN File(DESC_YAML, x.a, x.f) ELSE x :
                       x \in {y \in files : y.name # DESC_YAML}}]
        ELSE f

\* Lines 269-272: a DESCRIPTION.yml is moved to DESCRIPTION.yaml unless
\* that one exists.
NormalizeDescription(f, model) ==
    LET files == f.dirs[model].files
    IN  IF (~\E x \in files : x.name = DESC_YAML)
           /\ (\E x \in files : x.name = DESC_YML)
        THEN [f EXCEPT !.dirs[model].files =
                  {IF x.name = DESC_YML THEN File(DESC_YAML, x.a, x.f) ELSE x :
                       x \in files}]
        ELSE f

\* The archive found at `local`: the path given on the command line, or
\* <MLINIT>/<mlmfile> after a download; NONE when there is no such file.
LocalArchive(r, f) ==
    IF r.url = NONE
    THEN (IF r.present THEN r.ext ELSE NONE)
    ELSE IF \E m \in f.mlm : m.file = r.mlmfile
         THEN (CHOOSE m \in f.mlm : m.file = r.mlmfile).a
         ELSE NONE

\* Lines 262-285: extract the archive, normalise the descriptor's name,
\* record the model's commands for completion, and return.
install_model_extract(p) ==
    /\ proc[p].op = "install"
    /\ proc[p].pc = "extract"
    /\ LET r == [proc[p] EXCEPT !.extract_tried = TRUE]
           a == LocalArchive(r, fs)
       IN  IF a = NONE
           THEN /\ proc' = [proc EXCEPT ![p] = Finish(r, 1, "FileNotFoundError")]
                /\ fs' = fs
           ELSE IF ~ArchiveReadable(a)
           THEN /\ proc' = [proc EXCEPT ![p] = Finish(r, 1, "BadZipFile")]
                /\ fs' = fs
           ELSE LET f1 == NormalizeDescription(extractall(fs, a), r.model)
                    r1 == [r EXCEPT !.extracted = a,
                                    !.result = f1.dirs[r.model]]
                IN  IF ~HasDescription(f1, r.model)
                    THEN /\ proc' = [proc EXCEPT
                                ![p] = Finish(r1, 1, "DescriptionNotFound")]
                         /\ fs' = f1
                    ELSE /\ proc' = [proc EXCEPT ![p] = Finish(r1, 0, NONE)]
                         /\ fs' = update_completion_list(f1, "commands",
                                      load_description(f1, r.model).commands)

\* ------------------------------------------------------------------------
\* dispatch
\* ------------------------------------------------------------------------

\* What the user may type at a [y/N] question, and str.lower() of it.
Inputs == {"y", "Y", "n", ""}
Lower(c) == IF c = "Y" THEN "y" ELSE c

\* Lines 538-542: a declared language contained in "python" becomes "py",
\* one contained in "R" becomes "R", any other is kept as it is.
LangExtension(lang) ==
    IF StrIn(lang, PYTHON) THEN PY
    ELSE IF StrIn(lang, RLANG) THEN RLANG
    ELSE lang

\* utils.interpreter: the interpreter for a script's extension, NONE if the
\* extension has none.
interpreter(script) ==
    LET ext == SubSeq(script, 3, Len(script))
    IN  IF ext = PY THEN "python3"
        ELSE IF ext = RLANG THEN "Rscript"
        ELSE IF ext = <<"s", "h">> THEN "bash"
        ELSE NONE

\* os.path.exists(os.path.join(path, script)).
ScriptExists(f, model, script) ==
    \E x \in f.dirs[model].files : x.name = script

\* Lines 504-530 up to the display question: the model must be installed;
\* a command listed under meta.display with no DISPLAY set is asked about.
dispatch_begin(p, model, cmd, noDisplay) ==
    /\ Free(p)
    /\ fs' = fs
    /\ LET r == [Begin("dispatch", fs) EXCEPT !.model = model, !.cmd = cmd,
                                              !.noDisplay = noDisplay]
       IN  IF ~fs.dirs[model].exists
           THEN proc' = [proc EXCEPT ![p] = Finish(r, 1, "ModelNotInstalled")]
           ELSE IF ~HasDescription(fs, model)
           THEN proc' = [proc EXCEPT ![p] = Finish(r, 1, "DescriptionNotFound")]
           ELSE LET desc == load_description(fs, model)
                    r1 == [r EXCEPT !.desc = desc, !.existed = "yes"]
                IN  IF cmd \in desc.display /\ noDisplay
                    THEN proc' = [proc EXCEPT
                             ![p] = [r1 EXCEPT !.pc = "displayPrompt",
                                               !.prompt = "Continue"]]
                    ELSE proc' = [proc EXCEPT ![p] = [r1 EXCEPT !.pc = "resolve"]]

\* A faulty variant: the answer to the display question is not looked at.
DisplayDeclined_never(choice) == FALSE

\* Line 523: `if choice != 'y'`.
DisplayDeclined(choice) == choice # "y"

\* Lines 522-530: anything but 'y' exits with status 1.
dispatch_answer(p, input) ==
    /\ proc[p].op = "dispatch"
    /\ proc[p].pc = "displayPrompt"
    /\ fs' = fs
    /\ LET choice == Lower(input)
           r == [proc[p] EXCEPT !.answer = IF choice = "y" THEN "yes" ELSE "no",
                                !.input = input]
       IN  IF DisplayDeclined(choice)
           THEN proc' = [proc EXCEPT ![p] = Finish(r, 1, "UserCancelled")]
           ELSE proc' = [proc EXCEPT ![p] = [r EXCEPT !.pc = "resolve"]]

\* A faulty variant: `and` where line 551 has `or`.
CommandNotFound_and(f, r, script) ==
    r.cmd \notin r.desc.commands /\ ~ScriptExists(f, r.model, script)

\* Lines 551-558: the command is refused unless it is declared and its
\* script file exists.
CommandNotFound(f, r, script) ==
    r.cmd \notin r.desc.commands \/ ~ScriptExists(f, r.model, script)

\* Lines 534-574: compose the script's name, check the command, choose the
\* interpreter and start the child process.
dispatch_resolve(p) ==
    /\ proc[p].op = "dispatch"
    /\ proc[p].pc = "resolve"
    /\ fs' = fs
    /\ LET lang == LangExtension(proc[p].desc.languages)
           script == ScriptName(proc[p].cmd, lang)
           r == [proc[p] EXCEPT !.script = script]
       IN  IF CommandNotFound(fs, r, script)
           THEN proc' = [proc EXCEPT ![p] = Finish(r, 1, "CommandNotFound")]
           ELSE IF interpreter(script) = NONE
           THEN proc' = [proc EXCEPT ![p] = Finish(r, 1, "NoInterpreter")]
           ELSE proc' = [proc EXCEPT
                    ![p] = [r EXCEPT !.pc = "child", !.child = TRUE]]

MaxExit == 3

\* Lines 575-583: the child exits; its errors are printed if it failed,
\* and the function returns either way.
dispatch_communicate(p, returncode) ==
    /\ proc[p].op = "dispatch"
    /\ proc[p].pc = "child"
    /\ fs' = fs
    /\ proc' = [proc EXCEPT
           ![p] = Finish([@ EXCEPT !.returncode = returncode],
                         0,
                         IF returncode # 0 THEN "printed" ELSE NONE)]

\* ------------------------------------------------------------------------
\* remove_model
\* ------------------------------------------------------------------------

\* Lines 622-640: choose what to remove (NONE: the whole of MLINIT) and ask.
remove_model_begin(p, model) ==
    /\ Free(p)
    /\ fs' = fs
    /\ LET r == [Begin("remove", fs) EXCEPT !.model = model]
       IN  IF model = NONE
           THEN IF fs.root
                THEN proc' = [proc EXCEPT
                         ![p] = [r EXCEPT !.pc = "removePrompt",
                                          !.prompt = "RemoveAll"]]
                ELSE proc' = [proc EXCEPT ![p] = Finish(r, 1, "NothingToDo")]
           ELSE IF ~fs.dirs[model].exists
                THEN proc' = [proc EXCEPT
                         ![p] = Finish(r, 1, "ModelNotInstalled")]
                ELSE proc' = [proc EXCEPT
                         ![p] = [r EXCEPT !.pc = "removePrompt",
                                          !.prompt = "Remove",
                                          !.existed = "yes"]]

\* A faulty variant: an empty answer counts as yes, as in remove_mlm.
RemoveConfirmed_default_yes(choice) == choice = "y" \/ choice = ""

\* Line 642: `if choice == 'y'`.
RemoveConfirmed(choice) == choice = "y"

\* Lines 641-646: 'y' removes the tree; any other answer returns.
remove_model_answer(p, input) ==
    /\ proc[p].op = "remove"
    /\ proc[p].pc = "removePrompt"
    /\ LET choice == Lower(input)
           r == [proc[p] EXCEPT !.answer = IF choice = "y" THEN "yes" ELSE "no",
                                !.input = input]
           there == IF r.model = NONE THEN fs.root ELSE fs.dirs[r.model].exists
       IN  IF RemoveConfirmed(choice)
           THEN IF ~there
                THEN /\ proc' = [proc EXCEPT
                           ![p] = Finish(r, 1, "FileNotFoundError")]
                     /\ fs' = fs
                ELSE /\ proc' = [proc EXCEPT
                           ![p] = Finish([r EXCEPT !.removed = TRUE], 0, NONE)]
                     /\ fs' = IF r.model = NONE THEN rmtree_all(fs)
                              ELSE rmtree(fs, r.model)
           ELSE /\ proc' = [proc EXCEPT ![p] = Finish(r, 0, NONE)]
                /\ fs' = fs

\* ------------------------------------------------------------------------
\* remove_mlm
\* ------------------------------------------------------------------------

\* The characters of a path name as code points, the order list.sort() uses.
Ord(ch) ==
    CASE ch = "." -> 46
      [] ch = "_" -> 95
      [] ch = "a" -> 97
      [] ch = "i" -> 105
      [] ch = "l" -> 108
      [] ch = "m" -> 109
      [] ch = "n" -> 110
      [] ch = "r" -> 114
      [] ch = "s" -> 115

NameChars(name) ==
    IF name = "rain" THEN <<"r", "a", "i", "n">> ELSE <<"i", "r", "i", "s">>

RECURSIVE VersionCodes(_)
VersionCodes(v) ==
    IF v = << >> THEN << >>
    ELSE LET digits == [i \in 1..Len(v[1]) |-> 48 + v[1][i]]
         IN  IF Len(v) = 1 THEN digits
             ELSE digits \o <<Ord(".")>> \o VersionCodes(Tail(v))

\* The code points of an archive's path below MLINIT.
PathCodes(fn) ==
    [i \in 1..Len(NameChars(fn[1])) |-> Ord(NameChars(fn[1])[i])]
        \o (IF Len(fn) = 4 THEN <<Ord("_")>> \o VersionCodes(fn[3]) ELSE << >>)
        \o <<Ord("."), Ord("m"), Ord("l"), Ord("m")>>

\* Python's `<` on two strings.
StrLess(x, y) ==
    \E i \in 1..(Len(y)) :
        /\ \A j \in 1..(i - 1) : j <= Len(x) /\ x[j] = y[j]
        /\ i > Len(x) \/ x[i] < y[i]

\* Lines 603-604: glob's matches, sorted.
RECURSIVE SortedPaths(_)
SortedPaths(files) ==
    IF files = {} THEN << >>
    ELSE LET first == CHOOSE m \in files :
                          \A o \in files \ {m} : StrLess(PathCodes(m), PathCodes(o))
         IN  <<first>> \o SortedPaths(files \ {first})

\* Lines 603-607: list the archives in MLINIT and ask about the first.
remove_mlm_begin(p) ==
    /\ Free(p)
    /\ fs' = fs
    /\ LET mlm == SortedPaths({m.file : m \in fs.mlm})
           r == [Begin("remove_mlm", fs) EXCEPT !.queue = mlm]
       IN  proc' = [proc EXCEPT
               ![p] = IF mlm = << >> THEN Finish(r, 0, NONE)
                      ELSE [r EXCEPT !.pc = "mlmPrompt", !.prompt = "RemoveMlm"]]

\* A faulty variant: only 'y' removes the archive.
MlmConfirmed_y_only(choice) == choice = "y"

\* Line 609: `if choice == 'y' or choice == ''`.
MlmConfirmed(choice) == choice = "y" \/ choice = ""

\* Lines 606-610: the answer about one archive; on 'y' or an empty answer
\* the archive is removed; then the next archive is asked about.
remove_mlm_answer(p, input) ==
    /\ proc[p].op = "remove_mlm"
    /\ proc[p].pc = "mlmPrompt"
    /\ LET choice == Lower(input)
           m == Head(proc[p].queue)
           r == [proc[p] EXCEPT
                    !.queue = Tail(@), !.input = input,
                    !.asked = Append(@, [file |-> m, input |-> input])]
           next == IF r.queue = << >> THEN Finish(r, 0, NONE) ELSE r
       IN  IF ~MlmConfirmed(choice)
           THEN /\ proc' = [proc EXCEPT ![p] = next]
                /\ fs' = fs
           ELSE IF ~\E x \in fs.mlm : x.file = m
           THEN /\ proc' = [proc EXCEPT ![p] = Finish(r, 1, "FileNotFoundError")]
                /\ fs' = fs
           ELSE /\ proc' = [proc EXCEPT ![p] = next]
                /\ fs' = [fs EXCEPT !.mlm = {x \in @ : x.file # m}]

\* ------------------------------------------------------------------------
\* Specification: one tool process runs one command after another.
\* ------------------------------------------------------------------------

Step(p) ==
    \/ \E ref \in InstallRefs : install_model_begin(p, ref)
    \/ \E answer \in {"yes", "no"} : install_model_answer(p, answer)
    \/ \E ok \in BOOLEAN : install_model_probe(p, ok)
    \/ \E ok \in BOOLEAN : install_model_download(p, ok)
    \/ install_model_extract(p)
    \/ \E model \in Models, cmd \in Commands, noDisplay \in BOOLEAN :
           dispatch_begin(p, model, cmd, noDisplay)
    \/ \E input \in Inputs : dispatch_answer(p, input)
    \/ dispatch_resolve(p)
    \/ \E returncode \in 0..MaxExit : dispatch_communicate(p, returncode)
    \/ \E model \in Models \cup {NONE} : remove_model_begin(p, model)
    \/ \E input \in Inputs : remove_model_answer(p, input)
    \/ remove_mlm_begin(p)
    \/ \E input \in Inputs : remove_mlm_answer(p, input)

\* What process p works on: its model's directory, or all of them.
Target(p, f) ==
    IF proc[p].model \in Models THEN {f.dirs[proc[p].model]}
    ELSE {f.dirs[m] : m \in Models}

\* The step of process q changes what another, unfinished invocation works
\* on; a new invocation of q starts untouched.
Touch(q) ==
    touched' =
        [p \in Procs |->
            IF p = q THEN (IF Free(q) THEN FALSE ELSE touched[q])
            ELSE touched[p] \/ (~Free(p) /\ Target(p, fs') # Target(p, fs))]

Next == Step("p1") /\ Touch("p1")

Spec == Init /\ [][Next]_vars

\* ------------------------------------------------------------------------
\* Two tool processes install and remove the same model.  Each is a process
\* of its own: nothing in install_model or remove_model takes a lock, so
\* their steps interleave freely.
\* ------------------------------------------------------------------------

ConcRefs == [kind : {"local"}, x : {"A", "B"}, present : {TRUE}]

ConcStep(p) ==
    \/ \E ref \in ConcRefs : install_model_begin(p, ref)
    \/ \E answer \in {"yes", "no"} : install_model_answer(p, answer)
    \/ install_model_extract(p)
    \/ remove_model_begin(p, "rain")
    \/ \E input \in {"y", "n"} : remove_model_answer(p, input)

NextConc == \E p \in Procs : ConcStep(p) /\ Touch(p)

SpecConc == Init /\ [][NextConc]_vars

\* ------------------------------------------------------------------------
\* Properties.
\* ------------------------------------------------------------------------

Done(p, op) == proc[p].op = op /\ proc[p].pc = "done"

\* The numeric order of two valid version strings, component by component.
Rank(v) ==
    StrictVersion(v)[1] * 10000 + StrictVersion(v)[2] * 100 + StrictVersion(v)[3]

\* An install that found the model installed, with two valid versions.
Compared(p) ==
    /\ proc[p].op = "install"
    /\ proc[p].existed = "yes"
    /\ StrictVersionValid(proc[p].installed_version)
    /\ StrictVersionValid(proc[p].version)

\* C1: when the model is installed and the user declines the question of
\* install_model, the invocation ends with a non-zero status and the file
\* system is as it was when the invocation began.
C1_DeclinedInstallChangesNothing ==
    \A p \in Procs :
        Done(p, "install") /\ proc[p].prompt # NONE /\ proc[p].answer = "no"
            => proc[p].exit # 0 /\ fs = proc[p].fs0

\* C2: the installed model is removed only once the archive is locally
\* available: an install that has removed it has no probe or download ahead
\* of it, and has not failed in either.
C2_RemovalAfterAcquisition ==
    \A p \in Procs :
        proc[p].op = "install" /\ proc[p].removed
            => /\ proc[p].pc \notin {"probe", "download"}
               /\ proc[p].at \notin {"probe", "download"}

\* C3: installing at a version equal to the installed one asks "Replace",
\* and after a refusal the installation directory is exactly as it was.
C3_ReplaceDeclinedKeepsDirectory ==
    \A p \in Procs :
        Compared(p) /\ Rank(proc[p].installed_version) = Rank(proc[p].version)
            => /\ proc[p].prompt = "Replace"
               /\ proc[p].pc = "done" /\ proc[p].answer = "no"
                     => fs.dirs[proc[p].model] = proc[p].fs0.dirs[proc[p].model]

C3_Witness ==
    \E p \in Procs :
        /\ Done(p, "install")
        /\ proc[p].prompt = "Replace"
        /\ proc[p].answer = "no"
        /\ proc[p].installed_version # proc[p].version
        /\ fs.dirs[proc[p].model].exists

\* C4: when the model is installed, the question asked follows the numeric
\* comparison of the installed version with the candidate: greater asks
\* "Downgrade", less asks "Upgrade", equal asks "Replace".
C4_PromptFollowsComparison ==
    \A p \in Procs :
        Compared(p)
            => LET old == Rank(proc[p].installed_version)
                   new == Rank(proc[p].version)
               IN  /\ old > new => proc[p].prompt = "Downgrade"
                   /\ old < new => proc[p].prompt = "Upgrade"
                   /\ old = new => proc[p].prompt = "Replace"

\* Installed 1.10.0, candidate 1.2.0: a downgrade by number, not by text.
C4_Witness ==
    \E p \in Procs :
        /\ Compared(p)
        /\ proc[p].installed_version = V_1_10_0
        /\ proc[p].version = V_1_2_0
        /\ proc[p].prompt = "Downgrade"

\* C5 as stated: an install that finds no installation directory never
\* asks and always reaches the extraction.
C5_FreshInstallAlwaysExtracts ==
    \A p \in Procs :
        Done(p, "install") /\ proc[p].existed = "no"
            => proc[p].prompt = NONE /\ proc[p].extract_tried

\* C5 amended: an install that finds no installation directory never asks,
\* and reaches the extraction unless the header probe or the download fails.
C5_FreshInstallExtractsUnlessFetchFails ==
    \A p \in Procs :
        proc[p].op = "install" /\ proc[p].existed = "no"
            => /\ proc[p].prompt = NONE
               /\ proc[p].answer = NONE
               /\ proc[p].pc = "done"
                     => \/ proc[p].extract_tried
                        \/ /\ proc[p].at \in {"probe", "download"}
                           /\ proc[p].exit # 0

C5_Witness ==
    \E p \in Procs :
        /\ Done(p, "install")
        /\ proc[p].existed = "no"
        /\ proc[p].url # NONE
        /\ proc[p].extract_tried
        /\ proc[p].exit = 0

\* C6: a confirmed install over an existing installation removes the whole
\* directory before it fetches or extracts, and after a successful install
\* every file of the directory comes from the archive just extracted.
C6_DestroyThenRecreate ==
    \A p \in Procs :
        proc[p].op = "install" /\ proc[p].existed = "yes" /\ proc[p].answer = "yes"
            => /\ proc[p].pc \in {"probe", "download", "extract"}
                     => fs.dirs[proc[p].model] = NoDir
               /\ proc[p].pc = "done" /\ proc[p].exit = 0
                     => /\ fs.dirs[proc[p].model].exists
                        /\ \A x \in fs.dirs[proc[p].model].files :
                               x.a = proc[p].extracted

\* The old installation held a file the new archive has no file for.
C6_Witness ==
    \E p \in Procs :
        /\ Done(p, "install")
        /\ proc[p].exit = 0
        /\ proc[p].existed = "yes"
        /\ proc[p].answer = "yes"
        /\ \E x \in proc[p].fs0.dirs[proc[p].model].files :
               \A y \in fs.dirs[proc[p].model].files : y.name # x.name

\* C7: after a successful install of an archive whose file name carries a
\* version, the version in the installed descriptor is that version.
C7_InstalledVersionIsFileNameVersion ==
    \A p \in Procs :
        Done(p, "install") /\ proc[p].exit = 0 /\ proc[p].version # V_EMPTY
            => load_description(fs, proc[p].model).version = proc[p].version

\* C8: the exit status of dispatch is the child's return code.
C8_ExitMirrorsChild ==
    \A p \in Procs :
        Done(p, "dispatch") /\ proc[p].child
            => proc[p].exit = proc[p].returncode

\* A dispatch of an installed model for a command its descriptor does not
\* declare.
Undeclared(p) ==
    /\ proc[p].op = "dispatch"
    /\ proc[p].existed = "yes"
    /\ proc[p].cmd \notin proc[p].desc.commands

\* C9 as stated: dispatch of an undeclared command ends with the
\* command-not-found error and starts no child.
C9_UndeclaredIsCommandNotFound ==
    \A p \in Procs :
        Undeclared(p) /\ proc[p].pc = "done"
            => proc[p].err = "CommandNotFound" /\ ~proc[p].child

\* C9 amended: dispatch of an undeclared command never starts a child, and
\* ends with the command-not-found error unless the user declined the
\* display question first.
C9_UndeclaredNeverRuns ==
    \A p \in Procs :
        Undeclared(p)
            => /\ ~proc[p].child
               /\ proc[p].pc # "child"
               /\ proc[p].pc = "done"
                     => \/ proc[p].err = "CommandNotFound"
                        \/ /\ proc[p].err = "UserCancelled"
                           /\ proc[p].prompt = "Continue"
                           /\ proc[p].answer = "no"

\* The undeclared command's script file is on disk.
C9_Witness ==
    \E p \in Procs :
        /\ Undeclared(p)
        /\ proc[p].pc = "done"
        /\ proc[p].err = "CommandNotFound"
        /\ ScriptExists(fs, proc[p].model, proc[p].script)
        /\ interpreter(proc[p].script) # NONE

\* C10: declining any confirmation question (install, dispatch, removal)
\* ends the invocation with a non-zero status and an unchanged file system.
C10_DeclineExitsNonZeroUnchanged ==
    \A p \in Procs :
        proc[p].pc = "done" /\ proc[p].prompt # NONE /\ proc[p].answer = "no"
            => proc[p].exit # 0 /\ fs = proc[p].fs0


\* C11: remove_model deletes its target (one model's directory, or all of
\* MLINIT when no model is given) only on the answer 'y' or 'Y'; after any
\* other answer, the empty one included, the file system is as it was.
C11_RemoveOnlyOnConfirmation ==
    \A p \in Procs :
        Done(p, "remove") /\ proc[p].prompt # NONE
            => IF proc[p].input \in {"y", "Y"}
               THEN proc[p].removed
                    /\ fs = (IF proc[p].model = NONE THEN rmtree_all(proc[p].fs0)
                             ELSE rmtree(proc[p].fs0, proc[p].model))
               ELSE ~proc[p].removed /\ fs = proc[p].fs0

\* The empty answer to the question about all of MLINIT, with a model
\* installed.
C11_Witness ==
    \E p \in Procs :
        /\ Done(p, "remove")
        /\ proc[p].prompt = "RemoveAll"
        /\ proc[p].input = ""
        /\ \E m \in Models : fs.dirs[m].exists


\* C12: for an install from a URL, a probe with a non-success status ends
\* the invocation with ModelURLAccessException before any transfer; an HTTP
\* failure of the transfer ends it with ModelDownloadHaltException; neither
\* is tried a second time and neither is followed by the extraction.
C12_ProbeAndTransferFailures ==
    \A p \in Procs :
        proc[p].op = "install"
            => /\ proc[p].probes <= 1 /\ proc[p].transfers <= 1
               /\ proc[p].probe = "fail"
                     => /\ proc[p].pc = "done"
                        /\ proc[p].err = "ModelURLAccessException"
                        /\ proc[p].exit # 0
                        /\ proc[p].transfers = 0
                        /\ ~proc[p].extract_tried
                        /\ proc[p].extracted = NONE
               /\ proc[p].transfer = "fail"
                     => /\ proc[p].pc = "done"
                        /\ proc[p].err = "ModelDownloadHaltException"
                        /\ proc[p].exit # 0
                        /\ proc[p].probe = "ok"
                        /\ ~proc[p].extract_tried
                        /\ proc[p].extracted = NONE
               /\ proc[p].err = "ModelURLAccessException" => proc[p].probe = "fail"
               /\ proc[p].err = "ModelDownloadHaltException"
                     => proc[p].transfer = "fail"

\* Both failures are met: a transfer that failed after a successful probe.
C12_Witness ==
    \E p \in Procs :
        /\ Done(p, "install")
        /\ proc[p].probe = "ok"
        /\ proc[p].transfer = "fail"
        /\ proc[p].err = "ModelDownloadHaltException"


\* The language names dispatch knows (line 538).
Recognized(lang) == lang \in {PYTHON, RLANG}

\* C13: a declared language that is not a recognized name is an error:
\* dispatch never starts a script for a model whose `languages` is anything
\* but a recognized name.
C13_UnrecognizedLanguageNeverRuns ==
    \A p \in Procs :
        proc[p].op = "dispatch" /\ proc[p].existed = "yes"
            /\ ~Recognized(proc[p].desc.languages)
            => ~proc[p].child /\ proc[p].pc # "child"


\* C14: dispatch starts the child only after every check has passed: the
\* model is installed, the display question (asked when the command needs
\* a display and there is none) was answered 'y', the command is declared
\* and its script exists, and the script has an interpreter.  The checks
\* fail in that order, and a failed check is never followed by a child.
C14_ChildOnlyAfterAllChecks ==
    \A p \in Procs :
        proc[p].op = "dispatch"
            => /\ proc[p].child \/ proc[p].pc = "child"
                     => /\ proc[p].fs0.dirs[proc[p].model].exists
                        /\ proc[p].cmd \in proc[p].desc.display /\ proc[p].noDisplay
                               => proc[p].input \in {"y", "Y"}
                        /\ proc[p].cmd \in proc[p].desc.commands
                        /\ ScriptExists(proc[p].fs0, proc[p].model, proc[p].script)
                        /\ interpreter(proc[p].script) # NONE
                        /\ proc[p].err \in {NONE, "printed"}
               /\ proc[p].err = "ModelNotInstalled" => proc[p].at = "idle"
               /\ proc[p].err = "UserCancelled" => proc[p].at = "displayPrompt"
               /\ proc[p].err \in {"CommandNotFound", "NoInterpreter"}
                     => /\ proc[p].at = "resolve"
                        /\ proc[p].answer # "no"
               /\ proc[p].pc = "done" /\ proc[p].exit # 0 => ~proc[p].child

\* A child started after the display question was answered 'y'.
C14_Witness ==
    \E p \in Procs :
        /\ proc[p].op = "dispatch"
        /\ proc[p].pc = "child"
        /\ proc[p].prompt = "Continue"
        /\ proc[p].answer = "yes"


\* C16: after the extraction of archive a, a DESCRIPTION.yml that came
\* without a DESCRIPTION.yaml has been renamed to DESCRIPTION.yaml; a
\* DESCRIPTION.yaml of the archive is left as it is (and so is a .yml beside
\* it) and is the descriptor read; whenever the archive had either, the
\* canonical descriptor exists.
C16_DescriptorNormalized ==
    \A p \in Procs :
        Done(p, "install") /\ proc[p].extracted # NONE
            => LET a == proc[p].extracted
                   files == fs.dirs[proc[p].model].files
                   yaml == DESC_YAML \in ArchiveFiles(a)
                   yml == DESC_YML \in ArchiveFiles(a)
               IN  /\ yaml => File(DESC_YAML, a, DESC_YAML) \in files
                   /\ yaml /\ yml => File(DESC_YML, a, DESC_YML) \in files
                   /\ ~yaml /\ yml
                         => /\ File(DESC_YAML, a, DESC_YML) \in files
                            /\ \A x \in files : x.name # DESC_YML
                   /\ yaml \/ yml
                         => /\ HasDescription(fs, proc[p].model)
                            /\ Cardinality({x \in files : x.name = DESC_YAML}) = 1
                            /\ load_description(fs, proc[p].model)
                                   = ArchiveMeta(a, IF yaml THEN DESC_YAML
                                                    ELSE DESC_YML)
                            /\ proc[p].exit = 0

\* An archive with the legacy descriptor only has been installed.
C16_Witness ==
    \E p \in Procs :
        /\ Done(p, "install")
        /\ proc[p].extracted # NONE
        /\ DESC_YAML \notin ArchiveFiles(proc[p].extracted)
        /\ DESC_YML \in ArchiveFiles(proc[p].extracted)
        /\ File(DESC_YAML, proc[p].extracted, DESC_YML)
               \in fs.dirs[proc[p].model].files


\* C17: an install from an archive whose file name carries no version, over
\* an installed model with a valid version, does not fail on the version
\* comparison and offers neither an upgrade nor a downgrade.
C17_EmptyVersionProceeds ==
    \A p \in Procs :
        /\ proc[p].op = "install"
        /\ proc[p].existed = "yes"
        /\ proc[p].version = V_EMPTY
        /\ StrictVersionValid(proc[p].installed_version)
            => /\ proc[p].err # "ValueError"
               /\ proc[p].prompt \notin {"Upgrade", "Downgrade"}


\* C18: once the user has confirmed an install from a URL over an installed
\* model, the old directory is gone before the probe is sent, and if the
\* probe, the transfer or the extraction then fails, the invocation ends
\* with no directory for the model at all.
C18_NoRollback ==
    \A p \in Procs :
        proc[p].op = "install" /\ proc[p].url # NONE /\ proc[p].answer = "yes"
            /\ proc[p].fs0.dirs[proc[p].model].exists
            => /\ proc[p].removed
               /\ proc[p].pc = "probe"
                     => proc[p].probes = 0 /\ fs.dirs[proc[p].model] = NoDir
               /\ proc[p].pc = "download"
                     => proc[p].transfers = 0 /\ fs.dirs[proc[p].model] = NoDir
               /\ proc[p].pc = "done" /\ proc[p].exit # 0
                     => /\ proc[p].at \in {"probe", "download", "extract"}
                        /\ fs.dirs[proc[p].model] = NoDir

\* The downloaded archive could not be read, after the old installation
\* had been removed.
C18_Witness ==
    \E p \in Procs :
        /\ Done(p, "install")
        /\ proc[p].url # NONE
        /\ proc[p].removed
        /\ proc[p].err = "BadZipFile"
        /\ proc[p].fs0.dirs[proc[p].model].exists
        /\ ~fs.dirs[proc[p].model].exists


\* C19: remove_mlm asks about each archive of MLINIT once, in sorted order,
\* removes exactly those answered 'y' (in either case) or with an empty
\* answer, and leaves everything else, the installed models included, as
\* it was.
C19_RemoveMlmByAnswer ==
    \A p \in Procs :
        proc[p].op = "remove_mlm"
            => LET q == proc[p]
                   before == {m.file : m \in q.fs0.mlm}
                   asked == {q.asked[i].file : i \in 1..Len(q.asked)}
                   left == {q.queue[i] : i \in 1..Len(q.queue)}
                   gone == {q.asked[i].file : i \in
                               {j \in 1..Len(q.asked) :
                                    q.asked[j].input \in {"y", "Y", ""}}}
               IN  /\ \A i, j \in 1..Len(q.asked) :
                          i < j => StrLess(PathCodes(q.asked[i].file),
                                           PathCodes(q.asked[j].file))
                   /\ \A i \in 1..Len(q.asked), j \in 1..Len(q.queue) :
                          StrLess(PathCodes(q.asked[i].file), PathCodes(q.queue[j]))
                   /\ asked \cup left = before
                   /\ Len(q.asked) + Len(q.queue) = Cardinality(before)
                   /\ q.pc = "done" => q.queue = << >> /\ q.exit = 0
                   /\ fs.mlm = {m \in q.fs0.mlm : m.file \notin gone}
                   /\ fs.dirs = q.fs0.dirs
                   /\ fs.root = q.fs0.root
                   /\ fs.completion = q.fs0.completion

\* rain_1.10.0.mlm was asked about before rain_1.2.0.mlm; the empty answer
\* removed one archive and another answer kept the other.
C19_Witness ==
    \E p \in Procs :
        /\ Done(p, "remove_mlm")
        /\ \E i, j \in 1..Len(proc[p].asked) :
               /\ i < j
               /\ proc[p].asked[i].file = MlmFileName("B")
               /\ proc[p].asked[j].file = MlmFileName("A")
               /\ proc[p].asked[i].input = ""
               /\ proc[p].asked[j].input = "n"
        /\ \E m \in fs.mlm : m.file = MlmFileName("A")
        /\ ~\E m \in fs.mlm : m.file = MlmFileName("B")
        /\ \E m \in Models : fs.dirs[m].exists


\* An install of process p reported success although the directory it left
\* holds a file of another archive, or its rmtree found the directory gone.
Corrupted(p) ==
    \/ /\ Done(p, "install")
       /\ proc[p].exit = 0
       /\ \E x \in proc[p].result.files : x.a # proc[p].extracted
    \/ /\ proc[p].op \in {"install", "remove"}
       /\ proc[p].pc = "done"
       /\ proc[p].at \in {"prompt", "removePrompt"}
       /\ proc[p].err = "FileNotFoundError"

\* C15: with two processes installing and removing the same model, an
\* invocation ends corrupted (Corrupted above) only when the other process
\* changed the model's directory while it ran: the code of one process is
\* sound on its own, and nothing keeps the other out.  C15_Witness is the
\* interleaving that reaches the corrupted state.
C15_CorruptionOnlyByInterleaving ==
    \A p \in Procs : Corrupted(p) => touched[p]

\* Both installs reported success and the directory mixes two archives.
C15_Witness ==
    \E p, q \in Procs :
        /\ p # q
        /\ Done(p, "install") /\ proc[p].exit = 0
        /\ Done(q, "install") /\ proc[q].exit = 0
        /\ proc[p].model = proc[q].model
        /\ \E x, y \in fs.dirs[proc[p].model].files : x.a # y.a
        /\ Corrupted(p)

====
